---- MODULE Spec2Model ----
(***************************************************************************)
(* HandDetector of hand_transition_updated.py: orientation estimate,       *)
(* finger extension rules, and the windowed, cooldown-gated flip / motion  *)
(* detector, driven frame by frame through detect_hands (camera path) and  *)
(* detect_hands_from_landmarks (Android path).                             *)
(*                                                                         *)
(* Numbers.  The code computes in floating point.  Here landmark           *)
(* coordinates are integers in units of 0.01 (a normalized coordinate 0.50 *)
(* is 50) and the components of a normalized vector are integers in units  *)
(* of 0.001 (1.0 is 1000).  The thresholds 0.015, 0.01 and 0.05 of the     *)
(* code become 15, 10 (thousandths) and 5 (hundredths).                    *)
(***************************************************************************)
EXTENDS Integers, Sequences, FiniteSets, TLC

VARIABLES
    MP_AVAILABLE,        \* whether mediapipe was importable (self.hands is set)
    hand_history,        \* self.hand_history: identity -> deque(maxlen=10) of samples
    hand_motion_status,  \* self.hand_motion_status: identity -> status string
    flip_cooldown,       \* self.flip_cooldown: identity -> frames left
    call,                \* the entry point that handled the last frame
    detections,          \* the detected hands the last frame iterated over
    hands_info,          \* hands_info returned by the last frame
    motion_messages,     \* motion_messages returned by the last frame
    raised,              \* the exception that ended the last frame, or "None"
    since_flip,          \* history: detect_hands frames since h's last flip
                         \* event, 15 for "15 or more, or no flip yet"
    flip_gap,            \* history: when the last frame emitted a flip for h,
                         \* the frames since h's previous flip; 0 otherwise
    appended,            \* history: samples appended for h since its last
                         \* clear, 11 for "11 or more"
    carried,             \* history, kept by SpecWindows only: how many
                         \* samples of h's history were in the window of h's
                         \* last flip event
    arg_landmarks,       \* pure-function harness: the landmark list passed
    ret                  \* pure-function harness: what the calls returned

vars == <<MP_AVAILABLE, hand_history, hand_motion_status, flip_cooldown, call, detections, hands_info,
          motion_messages, raised, since_flip, flip_gap, appended, carried,
          arg_landmarks, ret>>

detector == <<hand_history, hand_motion_status, flip_cooldown>>
frame_out == <<call, detections, hands_info, motion_messages, raised>>
ghost == <<since_flip, flip_gap, appended, carried>>
harness == <<arg_landmarks, ret>>

----------------------------------------------------------------------------
(* Program constants *)

HandTypes == {"Left", "Right"}

\* deque(maxlen=10)
maxlen == 10

\* mutant: a refractory period no longer than the history window
cooldown_frames_short == maxlen

\* self.cooldown_frames = 15
cooldown_frames == 15

\* len(self.hand_history[hand_type]) < 5
min_samples == 5

\* normal_velocity > 0.015, in thousandths
flip_velocity == 15

\* abs(avg_change) > 0.01, in thousandths
rotate_velocity == 10

\* wrist_movement > 0.05, in hundredths
move_distance == 5

\* range(21) in count_fingers
n_points == 21

----------------------------------------------------------------------------
(* Vectors: np.array([x, y, z]) is the tuple <<x, y, z>>; Python's v[2] is  *)
(* v[3] here.                                                              *)

Abs(n) == IF n < 0 THEN -n ELSE n

Sub(a, b) == <<a[1] - b[1], a[2] - b[2], a[3] - b[3]>>

\* np.cross
Cross(a, b) == <<a[2] * b[3] - a[3] * b[2],
                 a[3] * b[1] - a[1] * b[3],
                 a[1] * b[2] - a[2] * b[1]>>

NormSq(v) == v[1] * v[1] + v[2] * v[2] + v[3] * v[3]

RECURSIVE SqrtSearch(_, _, _)
SqrtSearch(n, lo, hi) ==
    IF lo >= hi THEN lo
    ELSE LET mid == (lo + hi + 1) \div 2
         IN  IF mid * mid <= n THEN SqrtSearch(n, mid, hi)
             ELSE SqrtSearch(n, lo, mid - 1)

MaxAbs(v) ==
    LET a == Abs(v[1])
        b == Abs(v[2])
        c == Abs(v[3])
    IN  IF a >= b /\ a >= c THEN a ELSE IF b >= c THEN b ELSE c

\* np.linalg.norm, rounded down to an integer; the norm lies between the
\* largest component and the sum of the components
Norm(v) == SqrtSearch(NormSq(v), MaxAbs(v), Abs(v[1]) + Abs(v[2]) + Abs(v[3]))

\* c / norm_val in thousandths, rounded towards zero
Quot(c, n) == IF c < 0 THEN -((-c * 1000) \div n) ELSE (c * 1000) \div n

\* mutant: a zero cross product is replaced by the unit vector along z
Normalize_defaults_to_unit(v) ==
    LET norm_val == Norm(v)
    IN  IF norm_val > 0
        THEN <<Quot(v[1], norm_val), Quot(v[2], norm_val), Quot(v[3], norm_val)>>
        ELSE <<0, 0, 1000>>

\* normal / norm_val when norm_val > 0, the vector itself otherwise
Normalize(v) ==
    LET norm_val == Norm(v)
    IN  IF norm_val > 0
        THEN <<Quot(v[1], norm_val), Quot(v[2], norm_val), Quot(v[3], norm_val)>>
        ELSE v

\* hand_landmarks.landmark[idx]: Python lists count from 0
landmark(hl, idx) == hl[idx + 1]

\* np.array([p.x, p.y, p.z])
Pos(p) == <<p.x, p.y, p.z>>

----------------------------------------------------------------------------
(* is_palm_showing *)

PalmNormal(hl) ==
    Cross(Sub(Pos(landmark(hl, 5)), Pos(landmark(hl, 0))),
          Sub(Pos(landmark(hl, 17)), Pos(landmark(hl, 0))))

\* mutant: the label is ignored
is_palm_showing_ignores_label(hl, hand_type) == PalmNormal(hl)[3] > 0

is_palm_showing(hl, hand_type) ==
    IF hand_type = "Right"
    THEN PalmNormal(hl)[3] > 0
    ELSE PalmNormal(hl)[3] < 0

----------------------------------------------------------------------------
(* count_fingers *)

\* mutant: the thumb table of the Left hand is used for both labels
ThumbExtended_left_table(hl, hand_type) ==
    LET tip == landmark(hl, 4).x
        ip  == landmark(hl, 3).x
    IN  IF is_palm_showing(hl, hand_type) THEN tip > ip ELSE tip < ip

\* mutant: the thumb rule of the palm side is used for both sides
ThumbExtended_ignores_side(hl, hand_type) ==
    IF hand_type = "Left"
    THEN landmark(hl, 4).x > landmark(hl, 3).x
    ELSE landmark(hl, 4).x < landmark(hl, 3).x

ThumbExtended(hl, hand_type) ==
    LET tip == landmark(hl, 4).x
        ip  == landmark(hl, 3).x
        palm_showing == is_palm_showing(hl, hand_type)
    IN  IF hand_type = "Left"
        THEN (IF palm_showing THEN tip > ip ELSE tip < ip)
        ELSE (IF palm_showing THEN tip < ip ELSE tip > ip)

FingerExtended(hl, tip) == landmark(hl, tip).y < landmark(hl, tip - 2).y

finger_statuses(hl, hand_type) ==
    <<ThumbExtended(hl, hand_type),
      FingerExtended(hl, 8),
      FingerExtended(hl, 12),
      FingerExtended(hl, 16),
      FingerExtended(hl, 20)>>

\* sum(finger_statuses)
SumBools(s) == Cardinality({i \in DOMAIN s : s[i]})

\* points = [... for idx in range(21)] raises IndexError on a short list
count_fingers_raises(hl) == Len(hl) < n_points

\* mutant: the thumb is left out of the count
count_fingers_skips_thumb(hl, hand_type) ==
    LET statuses == finger_statuses(hl, hand_type)
    IN  [count |-> SumBools(Tail(statuses)), statuses |-> statuses]

count_fingers(hl, hand_type) ==
    LET statuses == finger_statuses(hl, hand_type)
    IN  [count |-> SumBools(statuses), statuses |-> statuses]

----------------------------------------------------------------------------
(* track_hand_motion and detect_flipping_motion.  d is the detector:       *)
(* [hist, status, cool] stand for self.hand_history,                       *)
(* self.hand_motion_status and self.flip_cooldown.                         *)

NoMessage == [kind |-> "None"]

\* current_data
Sample(hl, palm) ==
    [wrist           |-> Pos(landmark(hl, 0)),
     normal          |-> Normalize(PalmNormal(hl)),
     is_palm_showing |-> palm,
     middle_tip      |-> Pos(landmark(hl, 12))]

\* mutant: a deque without maxlen
DequeAppend_unbounded(q, s) == Append(q, s)

\* deque.append with maxlen: a full deque drops its leftmost item
DequeAppend(q, s) ==
    IF Len(q) >= maxlen THEN Append(Tail(q), s) ELSE Append(q, s)

RECURSIVE SumSeq(_)
SumSeq(s) == IF s = <<>> THEN 0 ELSE Head(s) + SumSeq(Tail(s))

\* normal_changes = [normals[i+1] - normals[i] ...]
normal_changes(history) ==
    [i \in 1..(Len(history) - 1) |->
        history[i + 1].normal[3] - history[i].normal[3]]

\* abs(avg_change) > threshold, avg_change = sum / len (0 for no changes);
\* the comparison is multiplied through by len to stay in integers
AvgExceeds(changes, threshold) ==
    /\ Len(changes) > 0
    /\ Abs(SumSeq(changes)) > threshold * Len(changes)

\* f"{normal_velocity:.4f}": abs(avg_change) rounded to units of 0.0001
Velocity4(changes) ==
    (2 * 10 * Abs(SumSeq(changes)) + Len(changes)) \div (2 * Len(changes))

flip_direction(newest_palm) ==
    IF ~newest_palm THEN "Palm to Back" ELSE "Back to Palm"

FlipStatus(direction) ==
    IF direction = "Palm to Back" THEN "Flipping: Palm to Back"
    ELSE "Flipping: Back to Palm"

\* np.linalg.norm(wrist_positions[-1] - wrist_positions[0]) > 0.05 over the
\* last three samples, compared on the squares
WristMoved(history) ==
    NormSq(Sub(history[Len(history)].wrist,
               history[Len(history) - 2].wrist)) > move_distance * move_distance

\* mutant: the velocity alone decides, the palm states are not compared
FlipTest_no_reversal(history) ==
    AvgExceeds(normal_changes(history), flip_velocity)

\* the flip test of detect_flipping_motion
FlipTest(history) ==
    /\ history[1].is_palm_showing # history[Len(history)].is_palm_showing
    /\ AvgExceeds(normal_changes(history), flip_velocity)

\* mutant: the rotation test comes before the displacement test
MotionStatus_rotation_first(history) ==
    IF AvgExceeds(normal_changes(history), rotate_velocity) THEN "Rotating"
    ELSE IF WristMoved(history) THEN "Moving"
    ELSE "Stable"

\* the motion test of detect_flipping_motion
MotionStatus(history) ==
    IF WristMoved(history) THEN "Moving"
    ELSE IF AvgExceeds(normal_changes(history), rotate_velocity) THEN "Rotating"
    ELSE "Stable"

\* mutant: no cooldown gate, the window is evaluated in every frame
detect_flipping_motion_ungated(d, hand_type) ==
    LET history == d.hist[hand_type]
        direction == flip_direction(history[Len(history)].is_palm_showing)
    IN  IF Len(history) < min_samples THEN [d |-> d, msg |-> NoMessage]
        ELSE IF FlipTest(history)
        THEN [d   |-> [d EXCEPT !.status[hand_type] = FlipStatus(direction),
                                !.cool[hand_type] = cooldown_frames],
              msg |-> [kind      |-> "flip",
                       hand_type |-> hand_type,
                       direction |-> direction,
                       velocity  |-> Velocity4(normal_changes(history))]]
        ELSE [d   |-> [d EXCEPT !.status[hand_type] = MotionStatus(history)],
              msg |-> NoMessage]

\* mutant: the flip branch does not return, the motion test runs after it
detect_flipping_motion_falls_through(d, hand_type) ==
    LET history == d.hist[hand_type]
        direction == flip_direction(history[Len(history)].is_palm_showing)
    IN  IF d.cool[hand_type] > 0 THEN [d |-> d, msg |-> NoMessage]
        ELSE IF Len(history) < min_samples THEN [d |-> d, msg |-> NoMessage]
        ELSE IF FlipTest(history)
        THEN [d   |-> [d EXCEPT !.status[hand_type] = MotionStatus(history),
                                !.cool[hand_type] = cooldown_frames],
              msg |-> [kind      |-> "flip",
                       hand_type |-> hand_type,
                       direction |-> direction,
                       velocity  |-> Velocity4(normal_changes(history))]]
        ELSE [d   |-> [d EXCEPT !.status[hand_type] = MotionStatus(history)],
              msg |-> NoMessage]

detect_flipping_motion(d, hand_type) ==
    LET history == d.hist[hand_type]
        direction == flip_direction(history[Len(history)].is_palm_showing)
    IN  IF d.cool[hand_type] > 0 THEN [d |-> d, msg |-> NoMessage]
        ELSE IF Len(history) < min_samples THEN [d |-> d, msg |-> NoMessage]
        ELSE IF FlipTest(history)
        THEN [d   |-> [d EXCEPT !.status[hand_type] = FlipStatus(direction),
                                !.cool[hand_type] = cooldown_frames],
              msg |-> [kind      |-> "flip",
                       hand_type |-> hand_type,
                       direction |-> direction,
                       velocity  |-> Velocity4(normal_changes(history))]]
        ELSE IF Len(history) >= 3
        THEN [d   |-> [d EXCEPT !.status[hand_type] = MotionStatus(history)],
              msg |-> NoMessage]
        ELSE [d |-> d, msg |-> NoMessage]

\* self.hand_history[hand_type] raises KeyError for an unknown label
track_raises(d, hand_type) == hand_type \notin DOMAIN d.hist

\* mutant: the two identities share one deque
track_hand_motion_shared_deque(d, hl, hand_type, palm) ==
    LET d1 == [d EXCEPT !.hist = [h \in DOMAIN d.hist |->
                                    DequeAppend(d.hist[h], Sample(hl, palm))]]
    IN  IF Len(d1.hist[hand_type]) < min_samples
        THEN [d |-> d1, msg |-> NoMessage]
        ELSE detect_flipping_motion(d1, hand_type)

\* mutant: the detector runs as soon as the motion test has its 3 samples
track_hand_motion_evaluates_early(d, hl, hand_type, palm) ==
    LET d1 == [d EXCEPT !.hist[hand_type] = DequeAppend(@, Sample(hl, palm))]
        history == d1.hist[hand_type]
    IN  IF Len(history) < 3 \/ d1.cool[hand_type] > 0
        THEN [d |-> d1, msg |-> NoMessage]
        ELSE IF Len(history) >= min_samples
        THEN detect_flipping_motion(d1, hand_type)
        ELSE [d   |-> [d1 EXCEPT !.status[hand_type] = MotionStatus(history)],
              msg |-> NoMessage]

track_hand_motion(d, hl, hand_type, palm) ==
    LET d1 == [d EXCEPT !.hist[hand_type] = DequeAppend(@, Sample(hl, palm))]
    IN  IF Len(d1.hist[hand_type]) < min_samples
        THEN [d |-> d1, msg |-> NoMessage]
        ELSE detect_flipping_motion(d1, hand_type)

----------------------------------------------------------------------------
(* The loop body shared by detect_hands and detect_hands_from_landmarks:   *)
(* one detected hand.  acc = [d, info, msgs, raised, seen].                *)

HandRecord(d, hl, hand_type, fingers, palm) ==
    [hand_type       |-> hand_type,
     finger_count    |-> fingers.count,
     palm_showing    |-> palm,
     dorsal_side     |-> ~palm,
     finger_statuses |-> fingers.statuses,
     motion_status   |-> d.status[hand_type],
     landmarks       |-> hl]

HandStep(acc, hl, hand_type) ==
    IF count_fingers_raises(hl)
    THEN [acc EXCEPT !.raised = "IndexError"]
    ELSE IF track_raises(acc.d, hand_type)
    THEN [acc EXCEPT !.raised = "KeyError"]
    ELSE LET fingers == count_fingers(hl, hand_type)
             palm == is_palm_showing(hl, hand_type)
             t == track_hand_motion(acc.d, hl, hand_type, palm)
         IN  [d      |-> t.d,
              info   |-> Append(acc.info,
                                HandRecord(t.d, hl, hand_type, fingers, palm)),
              msgs   |-> IF t.msg = NoMessage THEN acc.msgs
                         ELSE Append(acc.msgs, t.msg),
              raised |-> "None",
              seen   |-> Append(acc.seen, hand_type)]

\* pt.x, pt.y, pt.z = p["x"], p["y"], p.get("z", 0.0)
ToPoint(p) ==
    [x |-> p.x, y |-> p.y, z |-> IF "z" \in DOMAIN p THEN p.z ELSE 0]

ToLandmarks(raw) == [i \in 1..Len(raw) |-> ToPoint(raw[i])]

\* mutant: the detections are walked from the last to the first
RECURSIVE HandLoop_backwards(_, _)
HandLoop_backwards(acc, hands) ==
    IF hands = <<>> \/ acc.raised # "None" THEN acc
    ELSE HandLoop_backwards(HandStep(acc, hands[Len(hands)].landmarks,
                                     hands[Len(hands)].label),
                            SubSeq(hands, 1, Len(hands) - 1))

\* for hand_landmarks, handedness in zip(...): stops at the first exception
RECURSIVE HandLoop(_, _)
HandLoop(acc, hands) ==
    IF hands = <<>> \/ acc.raised # "None" THEN acc
    ELSE HandLoop(HandStep(acc, Head(hands).landmarks, Head(hands).label),
                  Tail(hands))

StartAcc(d) ==
    [d |-> d, info |-> <<>>, msgs |-> <<>>, raised |-> "None", seen |-> <<>>]

\* mutant: the histories are cleared, the motion status is left as it was
ResetTracking_keeps_status(d) ==
    [d EXCEPT !.hist = [h \in DOMAIN d.hist |-> <<>>]]

\* the else branch of detect_hands: no hands detected
ResetTracking(d) ==
    [d EXCEPT
       !.hist = [h \in DOMAIN d.hist |-> <<>>],
       !.status = [h \in DOMAIN d.status |->
                     IF Len(d.hist[h]) > 0 THEN "Unknown" ELSE d.status[h]]]

\* Update flip cooldown timers for both hands
TickCooldown(d) ==
    [d EXCEPT !.cool = [h \in DOMAIN d.cool |->
                          IF d.cool[h] > 0 THEN d.cool[h] - 1 ELSE d.cool[h]]]

----------------------------------------------------------------------------
(* Frame inputs.  A hand as the landmark model reports it: 21 points in    *)
(* units of 0.01, wrist = 0, thumb 1..4, index 5..8, middle 9..12,         *)
(* ring 13..16, pinky 17..20.                                              *)

Pt(x, y, z) == [x |-> x, y |-> y, z |-> z]

\* an open hand, held upright, all coordinates in the image plane
OpenHand ==
    <<Pt(50, 80, 0),
      Pt(42, 74, 0), Pt(36, 66, 0), Pt(32, 58, 0), Pt(28, 52, 0),
      Pt(42, 55, 0), Pt(41, 45, 0), Pt(40, 38, 0), Pt(40, 32, 0),
      Pt(50, 53, 0), Pt(50, 42, 0), Pt(50, 34, 0), Pt(50, 28, 0),
      Pt(57, 55, 0), Pt(58, 45, 0), Pt(59, 38, 0), Pt(59, 33, 0),
      Pt(63, 59, 0), Pt(65, 51, 0), Pt(66, 46, 0), Pt(67, 42, 0)>>

\* the hand turned almost edge-on: normal z = +0.05
Tilt == [OpenHand EXCEPT ![6] = Pt(50, 50, 0), ![18] = Pt(51, 50, 20),
                         ![9] = Pt(40, 47, 0)]

\* wrist, index MCP and pinky MCP on one line: zero cross product
Edge == [OpenHand EXCEPT ![6] = Pt(50, 50, 0), ![18] = Pt(50, 60, 0),
                         ![13] = Pt(50, 44, 0), ![17] = Pt(59, 46, 0)]

\* the open hand mirrored left to right and shifted: normal z = -1.0,
\* wrist 0.06 away from the other poses
Back == [i \in 1..21 |-> [OpenHand[i] EXCEPT !.x = 106 - @]]

\* the Right hand turns through three poses; the Left hand, when it is in
\* view, holds one
Poses(h) == IF h = "Right" THEN {Tilt, Edge, Back} ELSE {Back}

\* what the Android caller passes: dicts, "z" optional
NoZ(hl) == [i \in 1..Len(hl) |-> [x |-> hl[i].x, y |-> hl[i].y]]

Detection(hl, label) == [landmarks |-> hl, label |-> label]

\* results.multi_hand_landmarks of a Hands(max_num_hands=1): one hand at most
CameraResults ==
    {<<>>} \cup UNION {{<<Detection(hl, h)>> : hl \in Poses(h)} : h \in HandTypes}

\* lists the Android caller can pass: no hand, one hand, a Left and a Right
\* hand, and lists that break the documented shape (20 or 22 points, a label
\* that is neither Left nor Right)
WellFormedLists ==
    {<<>>}
    \cup {<<Detection(hl, "Right")>> : hl \in {Tilt, NoZ(Edge), Back}}
    \cup {<<Detection(Back, "Left")>>}
    \cup {<<Detection(Back, "Left"), Detection(hl, "Right")>> : hl \in {Tilt, Back}}
    \cup {<<Detection(NoZ(Edge), "Right"), Detection(Back, "Left")>>}

MalformedLists ==
    {<<Detection(SubSeq(Tilt, 1, 20), "Left")>>,
     <<Detection(Append(Back, Pt(50, 50, 0)), "Right")>>,
     <<Detection(Tilt, "Unknown")>>,
     <<Detection(Back, "Right"), Detection(Tilt, "Unknown")>>}

LandmarkLists == WellFormedLists \cup MalformedLists

----------------------------------------------------------------------------
(* Bounds of the exploration *)

Min(a, b) == IF a < b THEN a ELSE b

\* a hand holds its pose: within the ten frames of a history window it
\* changes pose once at most
Steady(q) ==
    \A i, j \in 1..(Len(q) - 1) :
        (q[i] # q[i + 1] /\ q[j] # q[j + 1]) => i = j

Admissible(d) == \A h \in HandTypes : Steady(d.hist[h])

----------------------------------------------------------------------------
(* State machine *)

Detector == [hist |-> hand_history, status |-> hand_motion_status,
             cool |-> flip_cooldown]

NoReturn ==
    [called  |-> {},
     palm    |-> [h \in HandTypes |-> FALSE],
     fingers |-> [h \in HandTypes |->
                    [count |-> 0, statuses |-> <<FALSE, FALSE, FALSE, FALSE, FALSE>>]]]

Init ==
    /\ MP_AVAILABLE \in BOOLEAN
    /\ hand_history = [h \in HandTypes |-> <<>>]
    /\ hand_motion_status = [h \in HandTypes |-> "Unknown"]
    /\ flip_cooldown = [h \in HandTypes |-> 0]
    /\ call = "init"
    /\ detections = <<>>
    /\ hands_info = <<>>
    /\ motion_messages = <<>>
    /\ raised = "None"
    /\ since_flip = [h \in HandTypes |-> 15]
    /\ flip_gap = [h \in HandTypes |-> 0]
    /\ appended = [h \in HandTypes |-> 0]
    /\ carried = [h \in HandTypes |-> 0]
    /\ arg_landmarks = <<>>
    /\ ret = NoReturn

Flipped(msgs, h) ==
    \E i \in 1..Len(msgs) : msgs[i].kind = "flip" /\ msgs[i].hand_type = h

Count(seen, h) == Cardinality({i \in 1..Len(seen) : seen[i] = h})

\* the detector fields, the frame's result and the history variables after a
\* frame that ended as acc, the detector being d afterwards
Finish(name, acc, d, cleared) ==
    /\ Admissible(d)
    /\ hand_history' = d.hist
    /\ hand_motion_status' = d.status
    /\ flip_cooldown' = d.cool
    /\ call' = name
    /\ raised' = acc.raised
    /\ hands_info' = IF acc.raised = "None" THEN acc.info ELSE <<>>
    /\ motion_messages' = IF acc.raised = "None" THEN acc.msgs ELSE <<>>
    /\ since_flip' = [h \in HandTypes |->
                        IF Flipped(acc.msgs, h) THEN 0
                        ELSE IF name = "detect_hands"
                        THEN Min(since_flip[h] + 1, 15)
                        ELSE since_flip[h]]
    /\ flip_gap' = [h \in HandTypes |->
                      IF Flipped(acc.msgs, h) THEN since_flip[h] + 1 ELSE 0]
    /\ appended' = [h \in HandTypes |->
                      Min((IF cleared THEN 0 ELSE appended[h])
                          + Count(acc.seen, h), 11)]
    /\ UNCHANGED <<MP_AVAILABLE, harness>>

\* detect_hands(image): results is what self.hands.process found in the image
detect_hands(results) ==
    \E acc \in {HandLoop(StartAcc(Detector), results)} :
      \E d \in {TickCooldown(IF results # <<>> THEN acc.d
                               ELSE ResetTracking(acc.d))} :
        /\ Finish("detect_hands", acc, d, results = <<>>)
        /\ detections' = results

\* detect_hands_from_landmarks(image, multi_hand_landmarks, multi_handedness)
detect_hands_from_landmarks(hands) ==
    LET converted == [i \in 1..Len(hands) |->
                        Detection(ToLandmarks(hands[i].landmarks), hands[i].label)]
    IN  \E acc \in {HandLoop(StartAcc(Detector), converted)} :
          /\ Finish("detect_hands_from_landmarks", acc, acc.d, FALSE)
          /\ detections' = hands

\* detect_hands dereferences self.hands, which is None without mediapipe:
\* it is called only where mediapipe was importable
CameraFrame ==
    /\ MP_AVAILABLE
    /\ \E results \in CameraResults : detect_hands(results)
    /\ UNCHANGED carried

\* the caller that has no mediapipe of its own passes the landmarks in
AndroidFrame ==
    /\ ~MP_AVAILABLE
    /\ \E hands \in LandmarkLists : detect_hands_from_landmarks(hands)
    /\ UNCHANGED carried

Next == CameraFrame \/ AndroidFrame

Spec == Init /\ [][Next]_vars

----------------------------------------------------------------------------
(* Two hands in view.  Hands(max_num_hands=1) reports one hand at most, so  *)
(* frames with a Left and a Right hand reach the detector only through     *)
(* detect_hands_from_landmarks.  Here both hands turn together, listed in  *)
(* either order, next to the one-hand frames of the camera.                *)

TwoHandLists ==
    {<<>>}
    \cup {<<Detection(hl, "Left"), Detection(hl, "Right")>> : hl \in {Tilt, Back}}
    \cup {<<Detection(hl, "Right"), Detection(hl, "Left")>> : hl \in {Tilt, Back}}

TwoHandFrame ==
    /\ ~MP_AVAILABLE
    /\ \E hands \in TwoHandLists : detect_hands_from_landmarks(hands)
    /\ UNCHANGED carried

NextTwoHands == CameraFrame \/ TwoHandFrame

SpecTwoHands == Init /\ [][NextTwoHands]_vars

----------------------------------------------------------------------------
(* The same frames, with the samples of each flip window followed through  *)
(* the history: carried[h] is set to the length of the window when a flip  *)
(* for h is emitted, drops by one for each of them the deque evicts, and   *)
(* is 0 after a clear.  None of these frames raises.                       *)

TrackCarried ==
    carried' = [h \in HandTypes |->
                  IF hand_history'[h] = <<>> THEN 0
                  ELSE IF Flipped(motion_messages', h) THEN Len(hand_history'[h])
                  ELSE LET evicted == Len(hand_history[h])
                                      + Count([i \in 1..Len(hands_info') |->
                                                 hands_info'[i].hand_type], h)
                                      - Len(hand_history'[h])
                       IN  carried[h] - Min(carried[h], evicted)]

CameraFrameWindows ==
    /\ MP_AVAILABLE
    /\ \E results \in CameraResults : detect_hands(results)
    /\ TrackCarried

TwoHandFrameWindows ==
    /\ ~MP_AVAILABLE
    /\ \E hands \in TwoHandLists : detect_hands_from_landmarks(hands)
    /\ TrackCarried

NextWindows == CameraFrameWindows \/ TwoHandFrameWindows

SpecWindows == Init /\ [][NextWindows]_vars

----------------------------------------------------------------------------
(* The pure functions is_palm_showing and count_fingers on their own: a    *)
(* fresh detector, a landmark list drawn from a grid, and one call of each *)
(* function per label.                                                     *)

\* how far, in hundredths, the grid reaches around the wrist
GridSpan == 1

\* index MCP and pinky MCP relative to the wrist: every direction of the
\* image plane, the zero offset, and one offset in depth
Offsets ==
    {<<x, y, 0>> : x \in -GridSpan..GridSpan, y \in -GridSpan..GridSpan}
    \cup {<<0, 0, 1>>}

Shift(p, o) == Pt(p.x + o[1], p.y + o[2], p.z + o[3])

\* the open hand with index MCP and pinky MCP placed around the wrist, the
\* thumb tip left of, at and right of the thumb IP, and each fingertip
\* above, at (or below) its PIP joint
GridHands ==
    {[OpenHand EXCEPT ![6] = Shift(OpenHand[1], i),
                      ![18] = Shift(OpenHand[1], p),
                      ![5].x = OpenHand[4].x + t,
                      ![9].y = OpenHand[7].y + f1,
                      ![13].y = OpenHand[11].y + f2,
                      ![17].y = OpenHand[15].y + f3,
                      ![21].y = OpenHand[19].y + f4] :
        i \in Offsets, p \in Offsets, t \in {-1, 0, 1},
        f1 \in {-1, 0, 1}, f2 \in {-1, 0}, f3 \in {-1, 0}, f4 \in {-1, 0}}

InitGeom ==
    /\ MP_AVAILABLE = FALSE
    /\ hand_history = [h \in HandTypes |-> <<>>]
    /\ hand_motion_status = [h \in HandTypes |-> "Unknown"]
    /\ flip_cooldown = [h \in HandTypes |-> 0]
    /\ call = "init"
    /\ detections = <<>>
    /\ hands_info = <<>>
    /\ motion_messages = <<>>
    /\ raised = "None"
    /\ since_flip = [h \in HandTypes |-> 15]
    /\ flip_gap = [h \in HandTypes |-> 0]
    /\ appended = [h \in HandTypes |-> 0]
    /\ carried = [h \in HandTypes |-> 0]
    /\ arg_landmarks \in GridHands
    /\ ret = NoReturn

Call_is_palm_showing ==
    /\ "is_palm_showing" \notin ret.called
    /\ ret' = [ret EXCEPT
                 !.called = @ \cup {"is_palm_showing"},
                 !.palm = [h \in HandTypes |-> is_palm_showing(arg_landmarks, h)]]
    /\ UNCHANGED <<MP_AVAILABLE, detector, frame_out, ghost, arg_landmarks>>

Call_count_fingers ==
    /\ "count_fingers" \notin ret.called
    /\ ~count_fingers_raises(arg_landmarks)
    /\ ret' = [ret EXCEPT
                 !.called = @ \cup {"count_fingers"},
                 !.fingers = [h \in HandTypes |-> count_fingers(arg_landmarks, h)]]
    /\ UNCHANGED <<MP_AVAILABLE, detector, frame_out, ghost, arg_landmarks>>

NextGeom == Call_is_palm_showing \/ Call_count_fingers

SpecGeom == InitGeom /\ [][NextGeom]_vars

----------------------------------------------------------------------------
(* Properties *)

Detected(info, h) == \E i \in 1..Len(info) : info[i].hand_type = h

FlipMessage(msgs, h) ==
    msgs[CHOOSE i \in 1..Len(msgs) : msgs[i].kind = "flip" /\ msgs[i].hand_type = h]

Newest(q) == q[Len(q)]

\* C1: cooldown discipline.  Counting the frames detect_hands processes: when
\* a flip event for identity h is emitted in frame N, none is emitted for h in
\* frames N+1 .. N+14, so a flip event of h never comes 1 .. 14 frames after
\* the previous one (flip_gap is 0 in a frame that emits no flip for h).
C1_CooldownDiscipline ==
    \A h \in HandTypes : flip_gap[h] \notin 1..14

\* C1 witness: a flip event for h emitted by detect_hands exactly 15 frames
\* after the previous flip event for h
C1_FlipAgainAtFrame15 ==
    \E h \in HandTypes :
        /\ call = "detect_hands"
        /\ Flipped(motion_messages, h)
        /\ flip_gap[h] = 15

\* C2 (as claimed): after every processed frame, an identity that is not
\* among the frame's detected hands has an empty motion history and motion
\* status Unknown.
C2_AbsentIsCleared ==
    \A h \in HandTypes :
        (call # "init" /\ raised = "None" /\ ~Detected(hands_info, h))
            => (hand_history[h] = <<>> /\ hand_motion_status[h] = "Unknown")

\* C3 (as claimed): every processed frame, through either entry point, lowers
\* each identity's cooldown by exactly 1 when it is positive and leaves it at 0
\* otherwise (a frame that emits a flip for h arms h's cooldown instead).
C3_CooldownTicksEveryFrame ==
    [][\A h \in HandTypes :
          (raised' = "None" /\ ~Flipped(motion_messages', h))
              => flip_cooldown'[h] =
                    (IF flip_cooldown[h] > 0 THEN flip_cooldown[h] - 1 ELSE 0)]_vars

RECURSIVE C4_SumOfChanges(_, _)
C4_SumOfChanges(q, i) ==
    IF i >= Len(q) THEN 0
    ELSE (q[i + 1].normal[3] - q[i].normal[3]) + C4_SumOfChanges(q, i + 1)

\* |mean of the consecutive differences of normal z| > 0.015, in thousandths
C4_FastEnough(q) ==
    LET total == C4_SumOfChanges(q, 1)
    IN  (IF total < 0 THEN -total ELSE total) > 15 * (Len(q) - 1)

\* C4: flip emission condition.  In a frame that detects h, a flip event for
\* h is emitted if and only if, after this frame's sample is appended, h's
\* history holds at least 5 samples, h's cooldown is 0, the oldest and the
\* newest sample differ in palmFacing and the absolute mean change of normal z
\* over the window exceeds 0.015; the direction is "Palm to Back" exactly when
\* the newest sample's palmFacing is false, otherwise "Back to Palm".
C4_FlipEmission ==
    [][\A h \in HandTypes :
          (raised' = "None" /\ Detected(hands_info', h))
          => LET q == hand_history'[h]
             IN  /\ Flipped(motion_messages', h)
                    <=> /\ Len(q) >= 5
                        /\ flip_cooldown[h] = 0
                        /\ q[1].is_palm_showing # Newest(q).is_palm_showing
                        /\ C4_FastEnough(q)
                 /\ Flipped(motion_messages', h)
                    => (FlipMessage(motion_messages', h).direction =
                           IF Newest(q).is_palm_showing = FALSE
                           THEN "Palm to Back" ELSE "Back to Palm")]_vars

\* C4 witness: a flip event "Back to Palm" emitted on a window of at least 5
\* samples whose oldest sample is dorsal and whose newest is palm-facing
C4_FlipEmitted ==
    \E h \in HandTypes :
        /\ Flipped(motion_messages, h)
        /\ FlipMessage(motion_messages, h).direction = "Back to Palm"
        /\ Len(hand_history[h]) >= 5
        /\ ~hand_history[h][1].is_palm_showing
        /\ Newest(hand_history[h]).is_palm_showing

\* squared wrist displacement between the third-from-last and the last sample
C5_DisplacementSq(q) ==
    LET a == q[Len(q) - 2].wrist
        b == Newest(q).wrist
    IN  (b[1] - a[1]) * (b[1] - a[1]) + (b[2] - a[2]) * (b[2] - a[2])
        + (b[3] - a[3]) * (b[3] - a[3])

\* C5: flip priority.  After a frame that emitted a flip event for h, the
\* motion status of h is "Flipping: <direction>" with the direction of the
\* message (so it is not Moving, Rotating or Stable), and h's cooldown is the
\* 15 the evaluation armed it to, less the one tick detect_hands applies at
\* the end of the frame.
C5_FlipPriority ==
    \A h \in HandTypes :
        Flipped(motion_messages, h)
        => /\ hand_motion_status[h] =
                (IF FlipMessage(motion_messages, h).direction = "Palm to Back"
                 THEN "Flipping: Palm to Back" ELSE "Flipping: Back to Palm")
           /\ hand_motion_status[h] \notin {"Moving", "Rotating", "Stable"}
           /\ flip_cooldown[h] = (IF call = "detect_hands" THEN 14 ELSE 15)

\* C5 witness: a flip event emitted while the wrist moved more than 0.05
C5_FlipWhileMoving ==
    \E h \in HandTypes :
        /\ Flipped(motion_messages, h)
        /\ C5_DisplacementSq(hand_history[h]) > 25

\* the last ten items of a sequence
C6_LastTen(q) ==
    IF Len(q) <= 10 THEN q ELSE SubSeq(q, Len(q) - 9, Len(q))

\* C6: the history is a bounded FIFO.  After every frame each history holds
\* min(k, 10) samples, k the number of samples appended since its last clear;
\* a frame leaves a history alone, clears it, or pushes one sample on its
\* tail and drops the head when that makes 11; and a frame that detects h
\* pushes the sample taken from that frame's landmarks.
C6_BoundedFifo ==
    [][\A h \in HandTypes :
          LET q == hand_history[h]
              r == hand_history'[h]
          IN  /\ Len(r) <= 10
              /\ Len(r) = Min(appended'[h], 10)
              /\ \/ r = q
                 \/ r = <<>>
                 \/ r # <<>> /\ r = C6_LastTen(q \o <<Newest(r)>>)
              /\ \A i \in 1..Len(hands_info') :
                    hands_info'[i].hand_type = h
                    => /\ r # <<>>
                       /\ r = C6_LastTen(q \o <<Newest(r)>>)
                       /\ Newest(r).wrist
                            = <<hands_info'[i].landmarks[1].x,
                                hands_info'[i].landmarks[1].y,
                                hands_info'[i].landmarks[1].z>>]_vars

\* C6 witness: the 11th sample has been appended and 10 are kept
C6_EleventhSample ==
    \E h \in HandTypes :
        appended[h] = 11 /\ Len(hand_history[h]) = 10

\* z component of cross(indexMCP - wrist, pinkyMCP - wrist)
C7_CrossZ(hl) ==
    (hl[6].x - hl[1].x) * (hl[18].y - hl[1].y)
    - (hl[6].y - hl[1].y) * (hl[18].x - hl[1].x)

\* C7 (as claimed): for every landmark set, degenerate ones included,
\* is_palm_showing returns opposite booleans for Left and for Right.
C7_Antisymmetric ==
    "is_palm_showing" \in ret.called => ret.palm["Left"] # ret.palm["Right"]

\* C7 (amended): is_palm_showing returns opposite booleans for Left and for
\* Right whenever the z component of the cross product is not zero; when it
\* is zero (collinear or image-plane-degenerate landmarks) it returns false
\* for both labels.
C7_AntisymmetricUnlessDegenerate ==
    "is_palm_showing" \in ret.called
    => IF C7_CrossZ(arg_landmarks) # 0
       THEN ret.palm["Left"] # ret.palm["Right"]
       ELSE ~ret.palm["Left"] /\ ~ret.palm["Right"]

\* C7 witness: a non-degenerate hand that is palm-facing as Left
C7_LeftPalmRightBack ==
    /\ "is_palm_showing" \in ret.called
    /\ C7_CrossZ(arg_landmarks) # 0
    /\ ret.palm["Left"]
    /\ ~ret.palm["Right"]

\* C8 (as claimed): a hand whose landmark list does not have exactly 21
\* points, or whose label is neither Left nor Right, ends the frame with an
\* error, so no record is ever returned for such a hand.
C8_MalformedFailsFast ==
    \A i \in 1..Len(hands_info) :
        /\ Len(hands_info[i].landmarks) = 21
        /\ hands_info[i].hand_type \in {"Left", "Right"}

\* C9: thumb and finger extension rules.  For every landmark set and label
\* the thumb is reported extended iff (Left, palm: tip.x > IP.x), (Left,
\* dorsal: tip.x < IP.x), (Right, palm: tip.x < IP.x), (Right, dorsal:
\* tip.x > IP.x), palm being is_palm_showing's answer for the same landmarks
\* and label; Index, Middle, Ring and Pinky are reported extended iff the
\* tip's y is strictly less than the y of the landmark two indices below.
C9_ExtensionRules ==
    ({"is_palm_showing", "count_fingers"} \subseteq ret.called)
    => \A h \in HandTypes :
          LET st  == ret.fingers[h].statuses
              tip == arg_landmarks[5].x
              ip  == arg_landmarks[4].x
          IN  /\ st[1] <=> \/ h = "Left"  /\ ret.palm[h]  /\ tip > ip
                           \/ h = "Left"  /\ ~ret.palm[h] /\ tip < ip
                           \/ h = "Right" /\ ret.palm[h]  /\ tip < ip
                           \/ h = "Right" /\ ~ret.palm[h] /\ tip > ip
              /\ st[2] <=> arg_landmarks[9].y < arg_landmarks[7].y
              /\ st[3] <=> arg_landmarks[13].y < arg_landmarks[11].y
              /\ st[4] <=> arg_landmarks[17].y < arg_landmarks[15].y
              /\ st[5] <=> arg_landmarks[21].y < arg_landmarks[19].y

\* C9 witness: a dorsal Right hand whose thumb is reported extended, and a
\* pinky at the height of its PIP joint reported not extended
C9_DorsalRightThumb ==
    /\ {"is_palm_showing", "count_fingers"} \subseteq ret.called
    /\ ~ret.palm["Right"]
    /\ ret.fingers["Right"].statuses[1]
    /\ arg_landmarks[21].y = arg_landmarks[19].y
    /\ ~ret.fingers["Right"].statuses[5]

\* C10: record consistency.  Every record returned by a frame has 5
\* per-finger booleans, a finger count equal to the number of true entries,
\* dorsal_side equal to not palm_showing, and a motion status among Unknown,
\* Stable, Moving, Rotating and the two Flipping labels that is the motion
\* status of its identity after the frame.
C10_RecordConsistency ==
    \A i \in 1..Len(hands_info) :
        LET r == hands_info[i]
        IN  /\ Len(r.finger_statuses) = 5
            /\ \A k \in 1..5 : r.finger_statuses[k] \in BOOLEAN
            /\ r.finger_count = Cardinality({k \in 1..5 : r.finger_statuses[k]})
            /\ r.finger_count \in 0..5
            /\ r.dorsal_side = ~r.palm_showing
            /\ r.motion_status \in {"Unknown", "Stable", "Moving", "Rotating",
                                    "Flipping: Palm to Back",
                                    "Flipping: Back to Palm"}
            /\ r.motion_status = hand_motion_status[r.hand_type]

\* C10 witness: a record with the thumb among several extended fingers and a
\* motion status the detector set in this frame
C10_RecordWithThumb ==
    \E i \in 1..Len(hands_info) :
        /\ hands_info[i].finger_statuses[1]
        /\ hands_info[i].finger_count >= 3
        /\ hands_info[i].motion_status = "Moving"

\* the x and y of every point as passed in, and its z where one was passed
C11_SamePoints(out, in) ==
    /\ Len(out) = Len(in)
    /\ \A k \in 1..Len(in) :
          /\ out[k].x = in[k].x
          /\ out[k].y = in[k].y
          /\ "z" \in DOMAIN in[k] => out[k].z = in[k].z

\* the labels of the detections dets whose identity is in the set flipped,
\* in the order of dets
RECURSIVE C11_LabelsOf(_, _)
C11_LabelsOf(dets, flipped) ==
    IF dets = <<>> THEN <<>>
    ELSE (IF Head(dets).label \in flipped THEN <<Head(dets).label>> ELSE <<>>)
         \o C11_LabelsOf(Tail(dets), flipped)

\* C11: output shape.  A frame that returns gives back one record per
\* detected hand, in the order of the detections and carrying that
\* detection's label and landmarks (none when no hand is detected), and a
\* message list that holds exactly the flip events of the frame: one message
\* for each detected identity whose cooldown the frame armed from 0, in
\* detection order, and nothing else.
C11_OutputShape ==
    [][raised' = "None"
       => LET armed == {h \in HandTypes :
                          flip_cooldown[h] = 0 /\ flip_cooldown'[h] >= 14}
          IN  /\ Len(hands_info') = Len(detections')
              /\ \A i \in 1..Len(detections') :
                    /\ hands_info'[i].hand_type = detections'[i].label
                    /\ C11_SamePoints(hands_info'[i].landmarks,
                                      detections'[i].landmarks)
              /\ Len(motion_messages') <= Len(detections')
              /\ \A i \in 1..Len(motion_messages') :
                    motion_messages'[i].kind = "flip"
              /\ [i \in 1..Len(motion_messages') |->
                     motion_messages'[i].hand_type]
                 = C11_LabelsOf(detections', armed)
              /\ armed = {} => motion_messages' = <<>>]_vars

\* C11 witness: a frame that detected Right before Left and returned two
\* records and two flip messages, Right's first
C11_TwoFlipsInOrder ==
    /\ raised = "None"
    /\ Len(detections) = 2
    /\ detections[1].label = "Right"
    /\ Len(hands_info) = 2
    /\ Len(motion_messages) = 2
    /\ motion_messages[1].hand_type = "Right"
    /\ motion_messages[2].hand_type = "Left"

\* what a window of at least 5 samples dictates: the flip test first, then
\* wrist displacement, then the mean change of normal z
C12_Dictated(q) ==
    IF q[1].is_palm_showing # Newest(q).is_palm_showing /\ C4_FastEnough(q)
    THEN (IF Newest(q).is_palm_showing THEN "Flipping: Back to Palm"
          ELSE "Flipping: Palm to Back")
    ELSE IF C5_DisplacementSq(q) > 25 THEN "Moving"
    ELSE LET total == C4_SumOfChanges(q, 1)
         IN  IF (IF total < 0 THEN -total ELSE total) > 10 * (Len(q) - 1)
             THEN "Rotating" ELSE "Stable"

\* C12 (as claimed): in every frame that detects h with at least 5 samples in
\* h's history after the append, the motion status of h ends the frame as
\* the current window dictates, never stale and never Unknown; with fewer
\* than 5 samples it is unchanged and no event is emitted.
C12_ReevaluatedEveryFrame ==
    [][\A h \in HandTypes :
          (raised' = "None" /\ Detected(hands_info', h))
          => LET q == hand_history'[h]
             IN  IF Len(q) >= 5
                 THEN hand_motion_status'[h] = C12_Dictated(q)
                 ELSE /\ hand_motion_status'[h] = hand_motion_status[h]
                      /\ ~Flipped(motion_messages', h)]_vars

\* C12 (amended): the same, for the frames in which h's cooldown is 0 when
\* the detector step runs; while the cooldown is positive the motion status
\* is unchanged and no event is emitted, however many samples there are.
C12_ReevaluatedUnlessCoolingDown ==
    [][\A h \in HandTypes :
          (raised' = "None" /\ Detected(hands_info', h))
          => LET q == hand_history'[h]
             IN  IF Len(q) >= 5 /\ flip_cooldown[h] = 0
                 THEN /\ hand_motion_status'[h] = C12_Dictated(q)
                      /\ hand_motion_status'[h] # "Unknown"
                 ELSE /\ hand_motion_status'[h] = hand_motion_status[h]
                      /\ ~Flipped(motion_messages', h)]_vars

\* C12 witness: a detected hand whose window of at least 5 samples was
\* evaluated in this frame, cooldown 0, and found Rotating
C12_EvaluatedRotating ==
    \E i \in 1..Len(hands_info) :
        LET h == hands_info[i].hand_type
        IN  /\ h \in HandTypes
            /\ Len(hand_history[h]) >= 5
            /\ flip_cooldown[h] = 0
            /\ hands_info[i].motion_status = "Rotating"
            /\ hand_motion_status[h] = "Rotating"

\* C13: the cooldown gate leaves the state untouched.  In a frame that
\* detects h while h's cooldown is positive, no event is emitted for h, the
\* motion status of h is unchanged (a "Flipping: <direction>" set by the flip
\* persists) and reported as such in h's record, the sample is appended, and
\* the detector step does not touch the cooldown: it ends the frame lowered
\* by the one tick of detect_hands, or as it was after
\* detect_hands_from_landmarks.
C13_GateLeavesState ==
    [][\A h \in HandTypes :
          (raised' = "None" /\ Detected(hands_info', h) /\ flip_cooldown[h] > 0)
          => /\ ~Flipped(motion_messages', h)
             /\ hand_motion_status'[h] = hand_motion_status[h]
             /\ flip_cooldown'[h] =
                   flip_cooldown[h] - (IF call' = "detect_hands" THEN 1 ELSE 0)
             /\ hand_history'[h] # <<>>
             /\ hand_history'[h] =
                   C6_LastTen(hand_history[h] \o <<Newest(hand_history'[h])>>)
             /\ \A i \in 1..Len(hands_info') :
                   hands_info'[i].hand_type = h
                   => hands_info'[i].motion_status = hand_motion_status[h]]_vars

\* C13 witness: a frame of the refractory period that detected h and kept
\* its Flipping status although the window no longer dictates it
C13_FlippingPersists ==
    \E i \in 1..Len(hands_info) :
        LET h == hands_info[i].hand_type
        IN  /\ h \in HandTypes
            /\ flip_cooldown[h] \in 1..13
            /\ ~Flipped(motion_messages, h)
            /\ Len(hand_history[h]) >= 5
            /\ hands_info[i].motion_status = "Flipping: Palm to Back"
            /\ C12_Dictated(hand_history[h]) # "Flipping: Palm to Back"

\* |mean of the consecutive differences of normal z| > 0.01, in thousandths
C14_Turning(q) ==
    LET total == C4_SumOfChanges(q, 1)
    IN  (IF total < 0 THEN -total ELSE total) > 10 * (Len(q) - 1)

\* C14: motion classification.  In every frame that detects h with at least
\* 5 samples in h's history, cooldown 0 and no flip emitted for h (a palm
\* reversal with velocity at most 0.015 included), the motion status of h
\* becomes Moving if the wrist moved more than 0.05 between the
\* third-from-last and the last sample, otherwise Rotating if the absolute
\* mean change of normal z over the window exceeds 0.01, otherwise Stable.
C14_MotionClassification ==
    [][\A h \in HandTypes :
          (/\ raised' = "None"
           /\ Detected(hands_info', h)
           /\ Len(hand_history'[h]) >= 5
           /\ flip_cooldown[h] = 0
           /\ ~Flipped(motion_messages', h))
          => LET q == hand_history'[h]
             IN  /\ C5_DisplacementSq(q) > 25
                    => hand_motion_status'[h] = "Moving"
                 /\ (C5_DisplacementSq(q) <= 25 /\ C14_Turning(q))
                    => hand_motion_status'[h] = "Rotating"
                 /\ (C5_DisplacementSq(q) <= 25 /\ ~C14_Turning(q))
                    => hand_motion_status'[h] = "Stable"]_vars

\* C14 witness: a hand classified Moving in a frame without a flip although
\* its window also turns faster than 0.01: Moving takes precedence
C14_MovingBeforeRotating ==
    \E i \in 1..Len(hands_info) :
        LET h == hands_info[i].hand_type
        IN  /\ h \in HandTypes
            /\ Len(hand_history[h]) >= 5
            /\ flip_cooldown[h] = 0
            /\ ~Flipped(motion_messages, h)
            /\ C5_DisplacementSq(hand_history[h]) > 25
            /\ C14_Turning(hand_history[h])
            /\ hands_info[i].motion_status = "Moving"

\* C15: per-identity isolation.  The detector step for one identity leaves
\* the other identity alone: in a frame that detects some hand but not g,
\* g's history and motion status are unchanged and g's cooldown changes only
\* by the frame's tick; in a frame that detects g next to the other hand,
\* g's history grows by g's own sample only, and g's motion status is either
\* unchanged or what g's own window dictates.
C15_Isolation ==
    [][\A g \in HandTypes :
          (raised' = "None" /\ detections' # <<>>)
          => IF ~Detected(hands_info', g)
             THEN /\ hand_history'[g] = hand_history[g]
                  /\ hand_motion_status'[g] = hand_motion_status[g]
                  /\ flip_cooldown'[g] =
                        (IF call' = "detect_hands" /\ flip_cooldown[g] > 0
                         THEN flip_cooldown[g] - 1 ELSE flip_cooldown[g])
             ELSE /\ hand_history'[g] # <<>>
                  /\ hand_history'[g] =
                        C6_LastTen(hand_history[g] \o <<Newest(hand_history'[g])>>)
                  /\ \A i \in 1..Len(hands_info') :
                        hands_info'[i].hand_type = g
                        => Newest(hand_history'[g]).is_palm_showing
                              = hands_info'[i].palm_showing
                  /\ hand_motion_status'[g] \in
                        {hand_motion_status[g]}
                        \cup (IF Len(hand_history'[g]) >= 5
                              THEN {C12_Dictated(hand_history'[g])} ELSE {})]_vars

\* C15 witness: a frame that detected Right alone and emitted its flip while
\* Left kept the history and the status of its own earlier frames
C15_LeftUntouchedByRightFlip ==
    /\ Len(hands_info) = 1
    /\ hands_info[1].hand_type = "Right"
    /\ Flipped(motion_messages, "Right")
    /\ Len(hand_history["Left"]) >= 5
    /\ hand_motion_status["Left"] = "Stable"
    /\ flip_cooldown["Left"] = 0

\* a point as passed in, a missing z read as 0
C16_Coords(p) == <<p.x, p.y, IF "z" \in DOMAIN p THEN p.z ELSE 0>>

\* wrist, index MCP and pinky MCP of a detection are collinear: every
\* component of cross(indexMCP - wrist, pinkyMCP - wrist) is zero
C16_Collinear(hl) ==
    LET w == C16_Coords(hl[1])
        a == C16_Coords(hl[6])
        b == C16_Coords(hl[18])
        u == <<a[1] - w[1], a[2] - w[2], a[3] - w[3]>>
        v == <<b[1] - w[1], b[2] - w[2], b[3] - w[3]>>
    IN  /\ u[2] * v[3] - u[3] * v[2] = 0
        /\ u[3] * v[1] - u[1] * v[3] = 0
        /\ u[1] * v[2] - u[2] * v[1] = 0

C16_WellFormed(det) ==
    Len(det.landmarks) = 21 /\ det.label \in {"Left", "Right"}

\* C16: degenerate geometry does not fail the frame.  When every detection
\* of a frame is well formed and detection i has wrist, index MCP and pinky
\* MCP collinear, the frame returns, record i is produced for it (neither
\* palm-facing for either label), and its sample is appended to the history
\* of its identity like any other, with the zero vector as its normal.
C16_DegenerateDoesNotFail ==
    [][\A i \in 1..Len(detections') :
          (/\ \A k \in 1..Len(detections') : C16_WellFormed(detections'[k])
           /\ C16_Collinear(detections'[i].landmarks))
          => LET h == detections'[i].label
             IN  /\ raised' = "None"
                 /\ Len(hands_info') = Len(detections')
                 /\ hands_info'[i].hand_type = h
                 /\ ~hands_info'[i].palm_showing
                 /\ hands_info'[i].dorsal_side
                 /\ hand_history'[h] # <<>>
                 /\ hand_history'[h] =
                       C6_LastTen(hand_history[h] \o <<Newest(hand_history'[h])>>)
                 /\ Newest(hand_history'[h]).normal = <<0, 0, 0>>
                 /\ Newest(hand_history'[h]).wrist
                       = C16_Coords(detections'[i].landmarks[1])]_vars

\* C16 witness: a collinear hand passed without z to
\* detect_hands_from_landmarks, recorded, and stored with a zero normal
\* behind earlier samples
C16_CollinearRecorded ==
    /\ call = "detect_hands_from_landmarks"
    /\ raised = "None"
    /\ Len(detections) >= 1
    /\ C16_Collinear(detections[1].landmarks)
    /\ Len(hands_info) >= 1
    /\ hands_info[1].hand_type = "Right"
    /\ Len(hand_history["Right"]) >= 2
    /\ Newest(hand_history["Right"]).normal = <<0, 0, 0>>

\* C17: at every frame boundary, also after frames that raised, the motion
\* status of an identity differs from Unknown only if its history holds at
\* least 5 samples; a history shorter than 5, an empty one in particular,
\* goes with status Unknown.
C17_StatusNeedsFiveSamples ==
    \A h \in HandTypes :
        /\ hand_motion_status[h] # "Unknown" => Len(hand_history[h]) >= 5
        /\ Len(hand_history[h]) < 5 => hand_motion_status[h] = "Unknown"

\* C17 witness: one identity classified on exactly 5 samples while the other
\* is back to an empty history and Unknown after it had been appended to
C17_ClassifiedAtFive ==
    \E h, g \in HandTypes :
        /\ h # g
        /\ Len(hand_history[h]) = 5
        /\ hand_motion_status[h] # "Unknown"
        /\ hand_history[g] = <<>>
        /\ hand_motion_status[g] = "Unknown"

\* C18 (as claimed): no sample is counted in two flip events: when a flip
\* event for h is emitted, the window it was evaluated on holds no sample of
\* the window of h's previous flip event (of the samples carried over, the
\* append of this frame has evicted one if the history was full).
C18_NoSampleInTwoFlips ==
    [][\A h \in HandTypes :
          Flipped(motion_messages', h)
          => carried[h] <= (IF Len(hand_history[h]) = 10 THEN 1 ELSE 0)]_vars

\* C19: the thumb result does not depend on the label when the hand is not
\* degenerate.  For every landmark set whose cross product has a non-zero z
\* component, count_fingers reports the same thumb boolean for Left and for
\* Right: extended iff tip.x > IP.x when that z is negative, iff
\* tip.x < IP.x when it is positive.
C19_ThumbIgnoresLabel ==
    ("count_fingers" \in ret.called /\ C7_CrossZ(arg_landmarks) # 0)
    => LET left  == ret.fingers["Left"].statuses[1]
           right == ret.fingers["Right"].statuses[1]
           tip   == arg_landmarks[5].x
           ip    == arg_landmarks[4].x
       IN  /\ left = right
           /\ C7_CrossZ(arg_landmarks) < 0 => (left <=> tip > ip)
           /\ C7_CrossZ(arg_landmarks) > 0 => (left <=> tip < ip)

\* C19 witness: a hand with negative cross z whose thumb is reported
\* extended under both labels
C19_SameThumbBothLabels ==
    /\ "count_fingers" \in ret.called
    /\ C7_CrossZ(arg_landmarks) < 0
    /\ ret.fingers["Left"].statuses[1]
    /\ ret.fingers["Right"].statuses[1]

====
